---- MODULE Spec2Model ----
(***************************************************************************)
(* cloudscan-runner: the scan job of cmd/runner (runScan), its adapter     *)
(* selection (initializeScanners), the parallel fan-out / fan-in           *)
(* (runScannersParallel) and the orchestrator client it reports to.        *)
(***************************************************************************)
EXTENDS Integers, Sequences, FiniteSets, TLC

\* Bound on len(cfg.ScanTypes), the comma-separated SCAN_TYPES list.
MaxScanTypes == 2

\* Bound on the number of findings one tool run reports.
MaxFindings == 1

\* Bound on the number of entries of the source archive.
MaxEntries == 3

\* Bound on the number of lines trufflehog writes to stdout.
MaxLines == 3

VARIABLES
    pc,          \* position of runScan (the caller goroutine)
    ret,         \* value returned by runScan: "none" (still running), "nil", "error"
    connected,   \* orchestrator.NewClient succeeded
    deadline,    \* the context.WithTimeout timer has fired
    cancelled,   \* the deferred cancel() has run
    rpcs,        \* calls made on the gRPC connection, in order (Close included)
    fetch,       \* outcome of DownloadAndExtract: "none", "ok", "failed"
    scannerList, \* result of initializeScanners
    wg,          \* sync.WaitGroup counter
    wpc,         \* position of each worker goroutine
    wFindings,   \* each worker's local `findings`
    wErr,        \* each worker's local `err`
    results,     \* the pre-sized results slice of runScannersParallel
    allFindings, \* runScan's allFindings
    scanErrors   \* runScan's scanErrors

\* initializeScanners on its own: its argument, the tools on PATH, its result.
VARIABLES
    sTypes,      \* the scanTypes argument
    sInstalled,  \* the scanners whose IsAvailable() is true
    sList,       \* the returned []scanners.Scanner
    sStatus      \* "idle", "ready", "done"

\* extractZip on its own: the archive, the loop position, the file system.
VARIABLES
    zArchive,    \* r.File: the entries of the archive, in archive order
    zPos,        \* index of the entry the loop of extractZip is at
    zFs,         \* the file system: the set of existing [path, kind]
    zTouched,    \* paths a directory or file was created or written at
    zStatus,     \* "idle", "extracting", "ok", "failed"
    zErr         \* the error extractFile returned to extractZip

\* The line reader of TruffleHogScanner.Scan on its own.
VARIABLES
    tLines,      \* the lines trufflehog writes to stdout
    tPos,        \* index of the next line the bufio.Scanner yields
    tFindings,   \* the local `findings`
    tErr,        \* scanner.Err()
    tRet,        \* the error Scan returns
    tStatus,     \* "idle", "reading", "returned"
    tProc        \* the trufflehog subprocess: "none", "running", "exited", "killed"

\* Scan of a document-format adapter (semgrep, trivy, scancode) on its own.
VARIABLES
    aScnr,       \* the adapter
    aInstalled,  \* IsAvailable() at the time of Scan
    aExit,       \* how the subprocess ended: "none", "zero", "nonzero", "killed"
    aFile,       \* the results file after the tool ran
    aDetections, \* the severity strings of the detections the file holds
    aFindings,   \* the local `findings` of Scan, at the end what it returns
    aErr,        \* the local `err` of Scan, at the end what it returns
    aPc          \* "idle", "start", "run", "parse", "parsed", "returned"

adapterVars == <<aScnr, aInstalled, aExit, aFile, aDetections, aFindings, aErr, aPc>>

selectVars == <<sTypes, sInstalled, sList, sStatus>>
zipVars == <<zArchive, zPos, zFs, zTouched, zStatus, zErr>>
lineVars == <<tLines, tPos, tFindings, tErr, tRet, tStatus, tProc>>

runScanVars == <<pc, ret, connected, deadline, cancelled, rpcs, fetch, scannerList,
                 wg, wpc, wFindings, wErr, results, allFindings, scanErrors>>

vars == <<runScanVars, selectVars, zipVars, lineVars, adapterVars>>

----------------------------------------------------------------------------
(* Values *)

\* A nil error.
NilErr == <<>>

\* The four Scanner implementations.
Scanners == {"SemgrepScanner", "TrivyScanner", "TruffleHogScanner", "ScanCodeScanner"}

\* Scanner.Name()
Name(scnr) ==
    CASE scnr = "SemgrepScanner"    -> "semgrep"
      [] scnr = "TrivyScanner"      -> "trivy"
      [] scnr = "TruffleHogScanner" -> "trufflehog"
      [] scnr = "ScanCodeScanner"   -> "scancode"

\* Scanner.ScanType()
ScanType(scnr) ==
    CASE scnr = "SemgrepScanner"    -> "SAST"
      [] scnr = "TrivyScanner"      -> "SCA"
      [] scnr = "TruffleHogScanner" -> "SECRETS"
      [] scnr = "ScanCodeScanner"   -> "LICENSE"

\* A nil *scanners.Result (the zero value of a slot of the results slice).
NilResult == [Findings |-> <<>>, ScanType |-> "", ScannerName |-> "", Error |-> NilErr]

\* &scanners.Result{Findings, ScanType, ScannerName, Error}
NewResult(scnr, findings, err) ==
    [Findings |-> findings, ScanType |-> ScanType(scnr),
     ScannerName |-> Name(scnr), Error |-> err]

\* Entries of cfg.ScanTypes: the spellings the switch knows, and others.
ScanTypeStrings ==
    {"sast", "SAST", "sca", "SCA", "secrets", "SECRETS", "license", "LICENSE",
     "Sca", ""}

\* strings.Split of a non-empty SCAN_TYPES: at least one entry.
ScanTypeLists == UNION {[1..n -> ScanTypeStrings] : n \in 1..MaxScanTypes}

\* The context is done once its timer fired or cancel() ran.
CtxDone == deadline \/ cancelled

\* Outcomes of a call that takes ctx (gRPC, HTTP): it fails once ctx is done,
\* and may fail for other reasons before that.
CallOutcomes == IF CtxDone THEN {FALSE} ELSE BOOLEAN

----------------------------------------------------------------------------
(* internal/orchestrator: Client *)

RpcUpdateScan(status, msg, count, ok) ==
    [op |-> "UpdateScan", status |-> status, msg |-> msg, findings |-> <<>>,
     count |-> count, ok |-> ok]

\* Client.UpdateScanStatus: one UpdateScan RPC carrying the status.
UpdateScanStatus(status, errorMsg, ok) ==
    <<RpcUpdateScan(status, errorMsg, -1, ok)>>

\* Client.CreateFindings: returns nil without an RPC when findings is empty.
CreateFindings(findings, ok) ==
    IF Len(findings) = 0
    THEN [sent |-> <<>>, err |-> NilErr]
    ELSE [sent |-> <<[op |-> "CreateFindings", status |-> "UNSET", msg |-> <<>>,
                      findings |-> findings, count |-> -1, ok |-> ok]>>,
          err |-> IF ok THEN NilErr ELSE <<"failed to create findings">>]

\* Client.UpdateFindingsCount: one UpdateScan RPC carrying only the count.
UpdateFindingsCount(count, ok) ==
    <<RpcUpdateScan("UNSET", <<>>, count, ok)>>

\* Client.Close
Close == <<[op |-> "Close", status |-> "UNSET", msg |-> <<>>, findings |-> <<>>,
            count |-> -1, ok |-> TRUE]>>

----------------------------------------------------------------------------
(* internal/scanners: Scan of the four adapters *)

\* What the environment gives one tool run: whether the binary is on PATH at
\* scan time, whether the subprocess could be started, the state of the
\* results file / output stream, and how many detections it holds.
ScanEnvs ==
    [installed : BOOLEAN, started : BOOLEAN,
     output : {"missing", "malformed", "ok"}, n : 0..MaxFindings]

\* The findings one adapter builds from n detections; id stands for the
\* identity of the allocated pb.Finding.
MakeFindings(scnr, idx, n) ==
    [k \in 1..n |-> [ScanType |-> ScanType(scnr), id |-> <<idx, k>>]]

\* TrivyScanner.Scan, SemgrepScanner.Scan, ScanCodeScanner.Scan: the exit of
\* the subprocess is only logged; parseResults decides.
DocumentScan(scnr, idx, env) ==
    IF ~env.installed
    THEN [findings |-> <<>>, err |-> <<Name(scnr), "is not installed">>]
    ELSE IF env.output = "missing"
    THEN [findings |-> <<>>, err |-> <<"failed to parse results", "failed to read results">>]
    ELSE IF env.output = "malformed"
    THEN [findings |-> <<>>, err |-> <<"failed to parse results", "failed to unmarshal JSON">>]
    ELSE [findings |-> MakeFindings(scnr, idx, env.n), err |-> NilErr]

\* TruffleHogScanner.Scan: fails only when the tool is absent or cannot be
\* started; the lines read from stdout become findings.
TruffleHogScan(scnr, idx, env) ==
    IF ~env.installed
    THEN [findings |-> <<>>, err |-> <<Name(scnr), "is not installed">>]
    ELSE IF ~env.started
    THEN [findings |-> <<>>, err |-> <<"failed to start trufflehog">>]
    ELSE [findings |-> IF env.output = "ok" THEN MakeFindings(scnr, idx, env.n) ELSE <<>>,
          err |-> NilErr]

\* resultsFile := filepath.Join(os.TempDir(), "<tool>-results.json"), which
\* every Scan removes on return (defer os.Remove) and the document tools
\* write and parseResults reads.
ResultsFile(scnr) ==
    CASE scnr = "SemgrepScanner"    -> "semgrep-results.json"
      [] scnr = "TrivyScanner"      -> "trivy-results.json"
      [] scnr = "TruffleHogScanner" -> "trufflehog-results.json"
      [] scnr = "ScanCodeScanner"   -> "scancode-results.json"

\* scnr.Scan(ctx, sourceDir)
Scan(scnr, idx, env) ==
    IF scnr = "TruffleHogScanner"
    THEN TruffleHogScan(scnr, idx, env)
    ELSE DocumentScan(scnr, idx, env)

----------------------------------------------------------------------------
(* cmd/runner: initializeScanners *)

\* Variant of SelectScanner: the IsAvailable() check is missing.
SelectScannerUnchecked(scanType, installed) ==
    LET scnr ==
            CASE scanType \in {"sast", "SAST"}       -> "SemgrepScanner"
              [] scanType \in {"sca", "SCA"}         -> "TrivyScanner"
              [] scanType \in {"secrets", "SECRETS"} -> "TruffleHogScanner"
              [] scanType \in {"license", "LICENSE"} -> "ScanCodeScanner"
              [] OTHER                               -> "none"
    IN  IF scnr # "none" THEN <<scnr>> ELSE <<>>

\* One iteration of the switch: the scanner appended for scanType, if any.
SelectScanner(scanType, installed) ==
    LET scnr ==
            CASE scanType \in {"sast", "SAST"}       -> "SemgrepScanner"
              [] scanType \in {"sca", "SCA"}         -> "TrivyScanner"
              [] scanType \in {"secrets", "SECRETS"} -> "TruffleHogScanner"
              [] scanType \in {"license", "LICENSE"} -> "ScanCodeScanner"
              [] OTHER                               -> "none"
    IN  IF scnr # "none" /\ scnr \in installed THEN <<scnr>> ELSE <<>>

RECURSIVE initializeScanners(_, _)
initializeScanners(scanTypes, installed) ==
    IF scanTypes = <<>>
    THEN <<>>
    ELSE SelectScanner(Head(scanTypes), installed)
             \o initializeScanners(Tail(scanTypes), installed)

----------------------------------------------------------------------------
(* cmd/runner: runScan *)

InitRunScan ==
    /\ pc = "start"
    /\ ret = "none"
    /\ connected = FALSE
    /\ deadline = FALSE
    /\ cancelled = FALSE
    /\ rpcs = <<>>
    /\ fetch = "none"
    /\ scannerList = <<>>
    /\ wg = 0
    /\ wpc = <<>>
    /\ wFindings = <<>>
    /\ wErr = <<>>
    /\ results = <<>>
    /\ allFindings = <<>>
    /\ scanErrors = <<>>

\* initializeScanners, extractZip and the line reader not being looked at
\* on their own.
SelectIdle ==
    /\ sTypes = <<>>
    /\ sInstalled = {}
    /\ sList = <<>>
    /\ sStatus = "idle"

ZipIdle ==
    /\ zArchive = <<>>
    /\ zPos = 0
    /\ zFs = {}
    /\ zTouched = {}
    /\ zStatus = "idle"
    /\ zErr = <<>>

LinesIdle ==
    /\ tLines = <<>>
    /\ tPos = 0
    /\ tFindings = <<>>
    /\ tErr = <<>>
    /\ tRet = <<>>
    /\ tStatus = "idle"
    /\ tProc = "none"

AdapterIdle ==
    /\ aScnr = "none"
    /\ aInstalled = FALSE
    /\ aExit = "none"
    /\ aFile = "none"
    /\ aDetections = <<>>
    /\ aFindings = <<>>
    /\ aErr = <<>>
    /\ aPc = "idle"

Init ==
    /\ InitRunScan
    /\ SelectIdle
    /\ ZipIdle
    /\ LinesIdle
    /\ AdapterIdle

workerVars == <<wg, wpc, wFindings, wErr, results>>

\* Variant of Return: orchClient.Close() is not deferred.
ReturnLeavesOpen(calls, r) ==
    /\ pc' = "done"
    /\ ret' = r
    /\ rpcs' = rpcs \o calls
    /\ cancelled' = TRUE

\* `return r` from runScan after `calls` were made: the deferred
\* orchClient.Close() and cancel() run.
Return(calls, r) ==
    /\ pc' = "done"
    /\ ret' = r
    /\ rpcs' = rpcs \o calls \o (IF connected THEN Close ELSE <<>>)
    /\ cancelled' = TRUE

\* Variant of Connect: the download starts right after the connection, before
\* RUNNING is announced.
ConnectFetchesFirst ==
    /\ pc = "start"
    /\ \E ok \in BOOLEAN :
          IF ok
          THEN /\ connected' = TRUE
               /\ pc' = "prepare"
               /\ UNCHANGED <<ret, rpcs, cancelled>>
          ELSE /\ Return(<<>>, "error")
               /\ UNCHANGED connected
    /\ UNCHANGED <<selectVars, zipVars, lineVars, adapterVars>>
    /\ UNCHANGED <<deadline, fetch, scannerList, workerVars, allFindings, scanErrors>>

\* orchestrator.NewClient(cfg.OrchestratorEndpoint)
Connect ==
    /\ pc = "start"
    /\ \E ok \in BOOLEAN :
          IF ok
          THEN /\ connected' = TRUE
               /\ pc' = "running"
               /\ UNCHANGED <<ret, rpcs, cancelled>>
          ELSE /\ Return(<<>>, "error")
               /\ UNCHANGED connected
    /\ UNCHANGED <<selectVars, zipVars, lineVars, adapterVars>>
    /\ UNCHANGED <<deadline, fetch, scannerList, workerVars, allFindings, scanErrors>>

\* Variant of AnnounceRunning: a failed RUNNING announcement is treated as
\* fatal and returned.
AnnounceRunningAborts ==
    /\ pc = "running"
    /\ \E ok \in CallOutcomes :
          IF ok
          THEN /\ rpcs' = rpcs \o UpdateScanStatus("RUNNING", <<>>, ok)
               /\ pc' = "prepare"
               /\ UNCHANGED <<ret, cancelled>>
          ELSE Return(UpdateScanStatus("RUNNING", <<>>, ok), "error")
    /\ UNCHANGED <<selectVars, zipVars, lineVars, adapterVars>>
    /\ UNCHANGED <<connected, deadline, fetch, scannerList,
                   workerVars, allFindings, scanErrors>>

\* UpdateScanStatus(RUNNING): a failure is only logged.
AnnounceRunning ==
    /\ pc = "running"
    /\ \E ok \in CallOutcomes :
          rpcs' = rpcs \o UpdateScanStatus("RUNNING", <<>>, ok)
    /\ pc' = "prepare"
    /\ UNCHANGED <<selectVars, zipVars, lineVars, adapterVars>>
    /\ UNCHANGED <<ret, connected, deadline, cancelled, fetch, scannerList,
                   workerVars, allFindings, scanErrors>>

\* Variant of PrepareSource: the download error is only logged and the job
\* goes on to select scanners.
PrepareSourceContinues ==
    /\ pc = "prepare"
    /\ \E ok \in CallOutcomes :
          /\ fetch' = IF ok THEN "ok" ELSE "failed"
          /\ pc' = "init"
    /\ UNCHANGED <<selectVars, zipVars, lineVars, adapterVars>>
    /\ UNCHANGED <<ret, connected, deadline, cancelled, rpcs, scannerList,
                   workerVars, allFindings, scanErrors>>

\* dl.DownloadAndExtract(ctx, cfg.SourceDownloadURL, cfg.WorkDir); LoadFromEnv
\* rejects an empty SOURCE_DOWNLOAD_URL, so this is the branch runScan takes.
PrepareSource ==
    /\ pc = "prepare"
    /\ \E ok \in CallOutcomes :
          /\ fetch' = IF ok THEN "ok" ELSE "failed"
          /\ pc' = IF ok THEN "init" ELSE "fetchFailed"
    /\ UNCHANGED <<selectVars, zipVars, lineVars, adapterVars>>
    /\ UNCHANGED <<ret, connected, deadline, cancelled, rpcs, scannerList,
                   workerVars, allFindings, scanErrors>>

\* The error branch of the download: announce FAILED, return the error.
AnnounceFetchFailed ==
    /\ pc = "fetchFailed"
    /\ \E ok \in CallOutcomes :
          Return(UpdateScanStatus("FAILED", <<"Failed to download source">>, ok), "error")
    /\ UNCHANGED <<selectVars, zipVars, lineVars, adapterVars>>
    /\ UNCHANGED <<connected, deadline, fetch, scannerList, workerVars,
                   allFindings, scanErrors>>

\* Variant of InitializeScanners: the len(scannerList) == 0 check is missing.
InitializeScannersNoCheck ==
    /\ pc = "init"
    /\ \E scanTypes \in ScanTypeLists, installed \in SUBSET Scanners :
          scannerList' = initializeScanners(scanTypes, installed)
    /\ pc' = "parallel"
    /\ UNCHANGED <<selectVars, zipVars, lineVars, adapterVars>>
    /\ UNCHANGED <<ret, connected, deadline, cancelled, rpcs, fetch,
                   workerVars, allFindings, scanErrors>>

\* scannerList := initializeScanners(cfg.ScanTypes): cfg.ScanTypes is the
\* job's SCAN_TYPES, `installed` the tools exec.LookPath finds at this time.
InitializeScanners ==
    /\ pc = "init"
    /\ \E scanTypes \in ScanTypeLists, installed \in SUBSET Scanners :
          scannerList' = initializeScanners(scanTypes, installed)
    /\ pc' = IF Len(scannerList') = 0 THEN "noScanners" ELSE "parallel"
    /\ UNCHANGED <<selectVars, zipVars, lineVars, adapterVars>>
    /\ UNCHANGED <<ret, connected, deadline, cancelled, rpcs, fetch,
                   workerVars, allFindings, scanErrors>>

\* Variant of AnnounceNoScanners: FAILED is announced and nil is returned.
AnnounceNoScannersReturnsNil ==
    /\ pc = "noScanners"
    /\ \E ok \in CallOutcomes :
          Return(UpdateScanStatus("FAILED",
                     <<"No scanners available for requested scan types">>, ok), "nil")
    /\ UNCHANGED <<selectVars, zipVars, lineVars, adapterVars>>
    /\ UNCHANGED <<connected, deadline, fetch, scannerList, workerVars,
                   allFindings, scanErrors>>

\* len(scannerList) == 0: announce FAILED, return the error.
AnnounceNoScanners ==
    /\ pc = "noScanners"
    /\ \E ok \in CallOutcomes :
          Return(UpdateScanStatus("FAILED",
                     <<"No scanners available for requested scan types">>, ok), "error")
    /\ UNCHANGED <<selectVars, zipVars, lineVars, adapterVars>>
    /\ UNCHANGED <<connected, deadline, fetch, scannerList, workerVars,
                   allFindings, scanErrors>>

----------------------------------------------------------------------------
(* cmd/runner: runScannersParallel *)

\* Entry of runScannersParallel: the WaitGroup and the results slice, one nil
\* slot per scanner.
MakeResults ==
    /\ pc = "parallel"
    /\ wg' = 0
    /\ results' = [i \in 1..Len(scannerList) |-> NilResult]
    /\ wpc' = [i \in 1..Len(scannerList) |-> "none"]
    /\ wFindings' = [i \in 1..Len(scannerList) |-> <<>>]
    /\ wErr' = [i \in 1..Len(scannerList) |-> NilErr]
    /\ pc' = "spawn"
    /\ UNCHANGED <<selectVars, zipVars, lineVars, adapterVars>>
    /\ UNCHANGED <<ret, connected, deadline, cancelled, rpcs, fetch, scannerList,
                   allFindings, scanErrors>>

\* One iteration of the for loop: wg.Add(1) and `go func(idx, scnr)`.
SpawnWorker ==
    /\ pc = "spawn"
    /\ \E i \in 1..Len(scannerList) :
          /\ wpc[i] = "none"
          /\ \A j \in 1..(i - 1) : wpc[j] # "none"
          /\ wg' = wg + 1
          /\ wpc' = [wpc EXCEPT ![i] = "scan"]
          /\ pc' = IF i = Len(scannerList) THEN "wait" ELSE "spawn"
    /\ UNCHANGED <<selectVars, zipVars, lineVars, adapterVars>>
    /\ UNCHANGED <<ret, connected, deadline, cancelled, rpcs, fetch, scannerList,
                   wFindings, wErr, results, allFindings, scanErrors>>

\* Variant of ScanReturn: the workers run under a group whose context is
\* cancelled by the first error (errgroup.WithContext).
ScanReturnCancelsOnError(i) ==
    /\ wpc[i] = "scan"
    /\ \E env \in ScanEnvs :
          LET r == Scan(scannerList[i], i, env)
          IN  /\ wFindings' = [wFindings EXCEPT ![i] = r.findings]
              /\ wErr' = [wErr EXCEPT ![i] = r.err]
              /\ cancelled' = (cancelled \/ r.err # NilErr)
    /\ wpc' = [wpc EXCEPT ![i] = "returned"]
    /\ UNCHANGED <<selectVars, zipVars, lineVars, adapterVars>>
    /\ UNCHANGED <<pc, ret, connected, deadline, rpcs, fetch,
                   scannerList, wg, results, allFindings, scanErrors>>

\* Variant of ScanReturn: the subprocess is not bound to ctx
\* (exec.Command), so Scan returns only if the tool exits by itself before
\* the context is done.
ScanReturnUnbound(i) ==
    /\ wpc[i] = "scan"
    /\ ~CtxDone
    /\ \E env \in ScanEnvs :
          LET r == Scan(scannerList[i], i, env)
          IN  /\ wFindings' = [wFindings EXCEPT ![i] = r.findings]
              /\ wErr' = [wErr EXCEPT ![i] = r.err]
    /\ wpc' = [wpc EXCEPT ![i] = "returned"]
    /\ UNCHANGED <<selectVars, zipVars, lineVars, adapterVars>>
    /\ UNCHANGED <<pc, ret, connected, deadline, cancelled, rpcs, fetch,
                   scannerList, wg, results, allFindings, scanErrors>>

\* findings, err := scnr.Scan(ctx, sourceDir)
ScanReturn(i) ==
    /\ wpc[i] = "scan"
    /\ \E env \in ScanEnvs :
          LET r == Scan(scannerList[i], i, env)
          IN  /\ wFindings' = [wFindings EXCEPT ![i] = r.findings]
              /\ wErr' = [wErr EXCEPT ![i] = r.err]
    /\ wpc' = [wpc EXCEPT ![i] = "returned"]
    /\ UNCHANGED <<selectVars, zipVars, lineVars, adapterVars>>
    /\ UNCHANGED <<pc, ret, connected, deadline, cancelled, rpcs, fetch,
                   scannerList, wg, results, allFindings, scanErrors>>

\* Variant of WriteSlot: the closure reads the loop variables instead of its
\* own (idx, scnr) arguments, so it writes the slot the loop has reached.
WriteSlotLoopVar(i) ==
    /\ wpc[i] = "returned"
    /\ LET j == CHOOSE k \in 1..Len(scannerList) :
                    /\ wpc[k] # "none"
                    /\ \A m \in 1..Len(scannerList) : wpc[m] # "none" => m <= k
       IN  results' = [results EXCEPT ![j] = NewResult(scannerList[j], wFindings[i], wErr[i])]
    /\ wpc' = [wpc EXCEPT ![i] = "wrote"]
    /\ UNCHANGED <<selectVars, zipVars, lineVars, adapterVars>>
    /\ UNCHANGED <<pc, ret, connected, deadline, cancelled, rpcs, fetch,
                   scannerList, wg, wFindings, wErr, allFindings, scanErrors>>

\* results[idx] = &scanners.Result{...}
WriteSlot(i) ==
    /\ wpc[i] = "returned"
    /\ results' = [results EXCEPT ![i] = NewResult(scannerList[i], wFindings[i], wErr[i])]
    /\ wpc' = [wpc EXCEPT ![i] = "wrote"]
    /\ UNCHANGED <<selectVars, zipVars, lineVars, adapterVars>>
    /\ UNCHANGED <<pc, ret, connected, deadline, cancelled, rpcs, fetch,
                   scannerList, wg, wFindings, wErr, allFindings, scanErrors>>

\* Variant of WorkerDone: the worker uploads its own findings before it ends.
WorkerDoneReports(i) ==
    /\ wpc[i] = "wrote"
    /\ wg' = wg - 1
    /\ wpc' = [wpc EXCEPT ![i] = "exit"]
    /\ \E ok \in CallOutcomes : rpcs' = rpcs \o CreateFindings(wFindings[i], ok).sent
    /\ UNCHANGED <<selectVars, zipVars, lineVars, adapterVars>>
    /\ UNCHANGED <<pc, ret, connected, deadline, cancelled, fetch,
                   scannerList, wFindings, wErr, results, allFindings, scanErrors>>

\* Variant of WorkerDone: a worker whose Scan failed runs it again.
WorkerDoneRetries(i) ==
    /\ wpc[i] = "wrote"
    /\ IF wErr[i] # NilErr
       THEN /\ wpc' = [wpc EXCEPT ![i] = "scan"]
            /\ UNCHANGED wg
       ELSE /\ wg' = wg - 1
            /\ wpc' = [wpc EXCEPT ![i] = "exit"]
    /\ UNCHANGED <<selectVars, zipVars, lineVars, adapterVars>>
    /\ UNCHANGED <<pc, ret, connected, deadline, cancelled, rpcs, fetch,
                   scannerList, wFindings, wErr, results, allFindings, scanErrors>>

\* The deferred wg.Done() at the end of the goroutine.
WorkerDone(i) ==
    /\ wpc[i] = "wrote"
    /\ wg' = wg - 1
    /\ wpc' = [wpc EXCEPT ![i] = "exit"]
    /\ UNCHANGED <<selectVars, zipVars, lineVars, adapterVars>>
    /\ UNCHANGED <<pc, ret, connected, deadline, cancelled, rpcs, fetch,
                   scannerList, wFindings, wErr, results, allFindings, scanErrors>>

\* Variant of WaitGroupWait: returns as soon as one worker has finished.
WaitGroupWaitFirst ==
    /\ pc = "wait"
    /\ \E i \in 1..Len(scannerList) : wpc[i] = "exit"
    /\ pc' = "collect"
    /\ UNCHANGED <<selectVars, zipVars, lineVars, adapterVars>>
    /\ UNCHANGED <<ret, connected, deadline, cancelled, rpcs, fetch, scannerList,
                   workerVars, allFindings, scanErrors>>

\* wg.Wait(); return results
WaitGroupWait ==
    /\ pc = "wait"
    /\ wg = 0
    /\ pc' = "collect"
    /\ UNCHANGED <<selectVars, zipVars, lineVars, adapterVars>>
    /\ UNCHANGED <<ret, connected, deadline, cancelled, rpcs, fetch, scannerList,
                   workerVars, allFindings, scanErrors>>

----------------------------------------------------------------------------
(* cmd/runner: runScan after the barrier *)

\* Variant of CollectFrom: an adapter's error is logged and swallowed.
RECURSIVE CollectFromSwallow(_, _, _, _)
CollectFromSwallow(res, i, findings, errors) ==
    IF i > Len(res)
    THEN [allFindings |-> findings, scanErrors |-> errors]
    ELSE IF res[i].Error # NilErr
    THEN CollectFromSwallow(res, i + 1, findings, errors)
    ELSE CollectFromSwallow(res, i + 1, findings \o res[i].Findings, errors)

\* Variant of CollectFrom: the loop breaks at the first failed result instead
\* of continuing with the next one.
RECURSIVE CollectFromBreak(_, _, _, _)
CollectFromBreak(res, i, findings, errors) ==
    IF i > Len(res)
    THEN [allFindings |-> findings, scanErrors |-> errors]
    ELSE IF res[i].Error # NilErr
    THEN [allFindings |-> findings,
          scanErrors |-> Append(errors, <<res[i].ScannerName, res[i].Error>>)]
    ELSE CollectFromBreak(res, i + 1, findings \o res[i].Findings, errors)

\* Variant of CollectFrom: a result's findings are put in front of the
\* findings collected so far.
RECURSIVE CollectFromStacks(_, _, _, _)
CollectFromStacks(res, i, findings, errors) ==
    IF i > Len(res)
    THEN [allFindings |-> findings, scanErrors |-> errors]
    ELSE IF res[i].Error # NilErr
    THEN CollectFromStacks(res, i + 1, findings,
                           Append(errors, <<res[i].ScannerName, res[i].Error>>))
    ELSE CollectFromStacks(res, i + 1, res[i].Findings \o findings, errors)

\* Variant of CollectFrom: a new entry is put in front of scanErrors.
RECURSIVE CollectFromPrepends(_, _, _, _)
CollectFromPrepends(res, i, findings, errors) ==
    IF i > Len(res)
    THEN [allFindings |-> findings, scanErrors |-> errors]
    ELSE IF res[i].Error # NilErr
    THEN CollectFromPrepends(res, i + 1, findings,
                             <<(<<res[i].ScannerName, res[i].Error>>)>> \o errors)
    ELSE CollectFromPrepends(res, i + 1, findings \o res[i].Findings, errors)

\* The loop over results: a result with an error contributes an entry to
\* scanErrors, any other contributes its findings to allFindings.
RECURSIVE CollectFrom(_, _, _, _)
CollectFrom(res, i, findings, errors) ==
    IF i > Len(res)
    THEN [allFindings |-> findings, scanErrors |-> errors]
    ELSE IF res[i].Error # NilErr
    THEN CollectFrom(res, i + 1, findings,
                     Append(errors, <<res[i].ScannerName, res[i].Error>>))
    ELSE CollectFrom(res, i + 1, findings \o res[i].Findings, errors)

Collect ==
    /\ pc = "collect"
    /\ LET c == CollectFrom(results, 1, <<>>, <<>>)
       IN  /\ allFindings' = c.allFindings
           /\ scanErrors' = c.scanErrors
           /\ pc' = IF Len(c.allFindings) > 0 THEN "upload" ELSE "final"
    /\ UNCHANGED <<selectVars, zipVars, lineVars, adapterVars>>
    /\ UNCHANGED <<ret, connected, deadline, cancelled, rpcs, fetch, scannerList,
                   workerVars>>

\* Variant of UploadFindings: a failed upload is retried once.
UploadFindingsRetry ==
    /\ pc = "upload"
    /\ \E ok \in CallOutcomes :
          LET r == CreateFindings(allFindings, ok)
              first == \A k \in 1..Len(rpcs) : rpcs[k].op # "CreateFindings"
          IN  /\ rpcs' = rpcs \o r.sent
              /\ scanErrors' = IF r.err # NilErr /\ ~first
                               THEN Append(scanErrors, <<"Failed to upload findings", r.err>>)
                               ELSE scanErrors
              /\ pc' = IF r.err # NilErr /\ first THEN "upload" ELSE "count"
    /\ UNCHANGED <<selectVars, zipVars, lineVars, adapterVars>>
    /\ UNCHANGED <<ret, connected, deadline, cancelled, fetch, scannerList,
                   workerVars, allFindings>>

\* Variant of UploadFindings: the count is reported only after a successful
\* upload.
UploadFindingsSkipCount ==
    /\ pc = "upload"
    /\ \E ok \in CallOutcomes :
          LET r == CreateFindings(allFindings, ok)
          IN  /\ rpcs' = rpcs \o r.sent
              /\ scanErrors' = IF r.err # NilErr
                               THEN Append(scanErrors, <<"Failed to upload findings", r.err>>)
                               ELSE scanErrors
              /\ pc' = IF r.err # NilErr THEN "final" ELSE "count"
    /\ UNCHANGED <<selectVars, zipVars, lineVars, adapterVars>>
    /\ UNCHANGED <<ret, connected, deadline, cancelled, fetch, scannerList,
                   workerVars, allFindings>>

\* orchClient.CreateFindings(ctx, cfg.ScanID, allFindings): a failure is
\* logged and appended to scanErrors.
UploadFindings ==
    /\ pc = "upload"
    /\ \E ok \in CallOutcomes :
          LET r == CreateFindings(allFindings, ok)
          IN  /\ rpcs' = rpcs \o r.sent
              /\ scanErrors' = IF r.err # NilErr
                               THEN Append(scanErrors, <<"Failed to upload findings", r.err>>)
                               ELSE scanErrors
    /\ pc' = "count"
    /\ UNCHANGED <<selectVars, zipVars, lineVars, adapterVars>>
    /\ UNCHANGED <<ret, connected, deadline, cancelled, fetch, scannerList,
                   workerVars, allFindings>>

\* Variant of UpdateCount: a failed count update is appended to scanErrors.
UpdateCountFatal ==
    /\ pc = "count"
    /\ \E ok \in CallOutcomes :
          /\ rpcs' = rpcs \o UpdateFindingsCount(Len(allFindings), ok)
          /\ scanErrors' = IF ok THEN scanErrors
                           ELSE Append(scanErrors, <<"Failed to update findings count">>)
    /\ pc' = "final"
    /\ UNCHANGED <<selectVars, zipVars, lineVars, adapterVars>>
    /\ UNCHANGED <<ret, connected, deadline, cancelled, fetch, scannerList,
                   workerVars, allFindings>>

\* orchClient.UpdateFindingsCount(ctx, cfg.ScanID, int32(len(allFindings))):
\* a failure is only logged.
UpdateCount ==
    /\ pc = "count"
    /\ \E ok \in CallOutcomes :
          rpcs' = rpcs \o UpdateFindingsCount(Len(allFindings), ok)
    /\ pc' = "final"
    /\ UNCHANGED <<selectVars, zipVars, lineVars, adapterVars>>
    /\ UNCHANGED <<ret, connected, deadline, cancelled, fetch, scannerList,
                   workerVars, allFindings, scanErrors>>

\* Variant of FinalStatus: the FAILED branch lacks its return and falls
\* through to the COMPLETED announcement.
FinalStatusFallsThrough ==
    /\ pc = "final"
    /\ \E ok \in CallOutcomes :
          IF Len(scanErrors) > 0
          THEN Return(UpdateScanStatus("FAILED",
                          <<"Scan completed with errors">> \o scanErrors, ok)
                      \o UpdateScanStatus("COMPLETED", <<>>, ok), "nil")
          ELSE Return(UpdateScanStatus("COMPLETED", <<>>, ok), "nil")
    /\ UNCHANGED <<selectVars, zipVars, lineVars, adapterVars>>
    /\ UNCHANGED <<connected, deadline, fetch, scannerList, workerVars,
                   allFindings, scanErrors>>

\* The final status: FAILED and an error when scanErrors is not empty,
\* COMPLETED and nil otherwise.
FinalStatus ==
    /\ pc = "final"
    /\ \E ok \in CallOutcomes :
          IF Len(scanErrors) > 0
          THEN Return(UpdateScanStatus("FAILED",
                          <<"Scan completed with errors">> \o scanErrors, ok), "error")
          ELSE Return(UpdateScanStatus("COMPLETED", <<>>, ok), "nil")
    /\ UNCHANGED <<selectVars, zipVars, lineVars, adapterVars>>
    /\ UNCHANGED <<connected, deadline, fetch, scannerList, workerVars,
                   allFindings, scanErrors>>

\* The timer of context.WithTimeout(context.Background(), cfg.ScanTimeout).
DeadlineElapses ==
    /\ pc # "done"
    /\ ~deadline
    /\ deadline' = TRUE
    /\ UNCHANGED <<selectVars, zipVars, lineVars, adapterVars>>
    /\ UNCHANGED <<pc, ret, connected, cancelled, rpcs, fetch, scannerList,
                   workerVars, allFindings, scanErrors>>

Next ==
    \/ Connect
    \/ AnnounceRunning
    \/ PrepareSource
    \/ AnnounceFetchFailed
    \/ InitializeScanners
    \/ AnnounceNoScanners
    \/ MakeResults
    \/ SpawnWorker
    \/ \E i \in DOMAIN wpc : ScanReturn(i)
    \/ \E i \in DOMAIN wpc : WriteSlot(i)
    \/ \E i \in DOMAIN wpc : WorkerDone(i)
    \/ WaitGroupWait
    \/ Collect
    \/ UploadFindings
    \/ UpdateCount
    \/ FinalStatus
    \/ DeadlineElapses

Spec == Init /\ [][Next]_vars

\* The statements of runScan (the caller goroutine): each returns, the
\* calls that take ctx at the latest when ctx is done.
CallerNext ==
    \/ Connect
    \/ AnnounceRunning
    \/ PrepareSource
    \/ AnnounceFetchFailed
    \/ InitializeScanners
    \/ AnnounceNoScanners
    \/ MakeResults
    \/ SpawnWorker
    \/ WaitGroupWait
    \/ Collect
    \/ UploadFindings
    \/ UpdateCount
    \/ FinalStatus

\* The goroutines are scheduled; a subprocess started with
\* exec.CommandContext(ctx, ...) is killed once ctx is done, so Scan returns
\* then. Before that a tool may run for ever: no fairness on a tool exiting by
\* itself, and none on the timer.
Fairness ==
    /\ WF_vars(CallerNext)
    /\ \A i \in 1..MaxScanTypes :
          /\ WF_vars(i \in DOMAIN wpc /\ CtxDone /\ ScanReturn(i))
          /\ WF_vars(i \in DOMAIN wpc /\ WriteSlot(i))
          /\ WF_vars(i \in DOMAIN wpc /\ WorkerDone(i))

SpecLive == Init /\ [][Next]_vars /\ Fairness

----------------------------------------------------------------------------
(* internal/downloader: extractZip / extractFile *)
(* A path is the sequence of its characters, each a one-character string.  *)

\* destDir: cfg.WorkDir, an absolute directory ("/workspace" by default).
DestDir == <<"/", "w">>

\* The elements of path between separators ("" where two separators meet).
RECURSIVE SplitAt(_, _)
SplitAt(path, cur) ==
    IF path = <<>>
    THEN <<cur>>
    ELSE IF Head(path) = "/"
         THEN <<cur>> \o SplitAt(Tail(path), <<>>)
         ELSE SplitAt(Tail(path), Append(cur, Head(path)))

\* elems joined with the separator.
RECURSIVE JoinSep(_)
JoinSep(elems) ==
    IF elems = <<>>
    THEN <<>>
    ELSE IF Len(elems) = 1
         THEN elems[1]
         ELSE elems[1] \o <<"/">> \o JoinSep(Tail(elems))

\* The elements filepath.Clean keeps: empty and "." elements are dropped, ".."
\* removes the element before it, is dropped at the root and kept at the
\* start of a relative path.
RECURSIVE CleanElems(_, _, _)
CleanElems(elems, rooted, kept) ==
    IF elems = <<>>
    THEN kept
    ELSE LET e == Head(elems)
             rest == Tail(elems)
         IN  CASE e = <<>> \/ e = <<".">> -> CleanElems(rest, rooted, kept)
               [] e = <<".", ".">> ->
                      IF kept # <<>> /\ kept[Len(kept)] # <<".", ".">>
                      THEN CleanElems(rest, rooted, SubSeq(kept, 1, Len(kept) - 1))
                      ELSE IF rooted
                           THEN CleanElems(rest, rooted, kept)
                           ELSE CleanElems(rest, rooted, Append(kept, e))
               [] OTHER -> CleanElems(rest, rooted, Append(kept, e))

\* filepath.Clean
Clean(path) ==
    IF path = <<>>
    THEN <<".">>
    ELSE LET rooted == path[1] = "/"
             kept == CleanElems(SplitAt(path, <<>>), rooted, <<>>)
         IN  IF rooted
             THEN <<"/">> \o JoinSep(kept)
             ELSE IF kept = <<>> THEN <<".">> ELSE JoinSep(kept)

\* filepath.Join(dir, name): the non-empty elements joined and cleaned.
Join(dir, name) ==
    IF dir = <<>> /\ name = <<>>
    THEN <<>>
    ELSE Clean(IF dir = <<>> THEN name
               ELSE IF name = <<>> THEN dir
               ELSE dir \o <<"/">> \o name)

\* filepath.HasPrefix: strings.HasPrefix, a comparison of characters.
HasPrefix(path, prefix) ==
    /\ Len(path) >= Len(prefix)
    /\ SubSeq(path, 1, Len(prefix)) = prefix

\* filepath.Dir: path up to its last separator, cleaned.
Dir(path) ==
    LET seps == {i \in DOMAIN path : path[i] = "/"}
        last == IF seps = {} THEN 0 ELSE CHOOSE i \in seps : \A j \in seps : j <= i
    IN  Clean(SubSeq(path, 1, last))

\* Variant of ZipSlipCheck: the prefix is the cleaned destDir without the
\* separator after it.
ZipSlipCheckNoSeparator(destPath, destDir) ==
    HasPrefix(destPath, Clean(destDir))

\* The check of extractFile: destPath starts with the cleaned destDir
\* followed by a separator.
ZipSlipCheck(destPath, destDir) ==
    HasPrefix(destPath, Clean(destDir) \o <<"/">>)

\* Names of archive entries, as a zip file can carry them.
EntryNames ==
    {<<"x">>,                          \* x
     <<"d", "/">>,                     \* d/
     <<"d", "/", "x">>,                \* d/x
     <<"x", "/", "y">>,                \* x/y
     <<".", "/">>,                     \* ./
     <<"d", "/", ".", ".", "/", "x">>, \* d/../x
     <<"/", "x">>,                     \* /x
     <<".", ".", "/">>,                \* ../
     <<".", ".", "/", "y">>,           \* ../y
     <<".", ".", "/", "w", "w">>,      \* ../ww
     <<".", ".", "/", "w", "/", "x">>} \* ../w/x

\* A zip.File: f.Name and f.FileInfo().IsDir(), which is true of a name
\* that ends with a separator.
ZipEntries == {[Name |-> n, IsDir |-> n[Len(n)] = "/"] : n \in EntryNames}

\* r.File: the entries of an archive, none included.
Archives == {<<>>} \cup UNION {[1..n -> ZipEntries] : n \in 1..MaxEntries}

\* The file system when extractZip is called: DownloadAndExtract has made
\* destDir (os.MkdirAll(destDir, 0755)).
InitialFs == {[path |-> <<"/">>, kind |-> "dir"], [path |-> DestDir, kind |-> "dir"]}

\* An absolute cleaned path and the directories above it, the root first.
PathAndParents(path) ==
    LET elems == CleanElems(SplitAt(path, <<>>), TRUE, <<>>)
    IN  {<<"/">> \o JoinSep(SubSeq(elems, 1, k)) : k \in 0..Len(elems)}

\* os.MkdirAll(path, perm): makes path and its missing parents; fails, making
\* nothing, when path or a parent exists and is not a directory.
MkdirAll(fs, path) ==
    LET dirs == PathAndParents(path)
    IN  IF \E p \in dirs : [path |-> p, kind |-> "file"] \in fs
        THEN [ok |-> FALSE, fs |-> fs, made |-> {}]
        ELSE [ok |-> TRUE,
              fs |-> fs \cup {[path |-> p, kind |-> "dir"] : p \in dirs},
              made |-> {p \in dirs : [path |-> p, kind |-> "dir"] \notin fs}]

\* What can go wrong outside the archive's control: os.MkdirAll fails
\* ("mkdir"), f.Open or os.OpenFile fails ("open"), io.Copy fails ("copy").
IOOutcomes == {"ok", "mkdir", "open", "copy"}

\* d.extractFile(f, destDir) on file system fs: the error it returns, the
\* file system it leaves and the paths it created or wrote.
extractFile(f, destDir, fs, io) ==
    LET destPath == Join(destDir, f.Name)
        failed(e, m) == [err |-> <<e>>, fs |-> m.fs, touched |-> m.made]
        none == [fs |-> fs, made |-> {}]
    IN  IF ~ZipSlipCheck(destPath, destDir)
        THEN failed("invalid file path", none)
        ELSE IF f.IsDir
        THEN LET m == MkdirAll(fs, destPath)
             IN  IF io = "mkdir" \/ ~m.ok
                 THEN failed("mkdir", none)
                 ELSE [err |-> NilErr, fs |-> m.fs, touched |-> m.made]
        ELSE LET m == MkdirAll(fs, Dir(destPath))
             IN  IF io = "mkdir" \/ ~m.ok
                 THEN failed("mkdir", none)
                 ELSE IF io = "open" \/ [path |-> destPath, kind |-> "dir"] \in m.fs
                 THEN failed("open", m)
                 ELSE [err |-> IF io = "copy" THEN <<"copy">> ELSE NilErr,
                       fs |-> m.fs \cup {[path |-> destPath, kind |-> "file"]},
                       touched |-> m.made \cup {destPath}]

\* runScan at its start, with the archive the download will fetch and
\* destDir as DownloadAndExtract prepares it.
InitZip ==
    /\ InitRunScan
    /\ SelectIdle
    /\ LinesIdle
    /\ AdapterIdle
    /\ zArchive \in Archives
    /\ zPos = 1
    /\ zFs = InitialFs
    /\ zTouched = {}
    /\ zStatus = "extracting"
    /\ zErr = NilErr

\* Variant of ExtractFile: when an entry fails, what the earlier entries
\* left in destDir is removed before extractZip returns.
ExtractFileRollsBack ==
    /\ zStatus = "extracting"
    /\ pc = "prepare"
    /\ zPos <= Len(zArchive)
    /\ \E io \in IOOutcomes :
          LET r == extractFile(zArchive[zPos], DestDir, zFs, io)
          IN  /\ zTouched' = zTouched \cup r.touched
              /\ zErr' = r.err
              /\ IF r.err = NilErr
                 THEN /\ zFs' = r.fs
                      /\ zPos' = zPos + 1
                      /\ zStatus' = zStatus
                 ELSE /\ zFs' = InitialFs
                      /\ zPos' = zPos
                      /\ zStatus' = "failed"
    /\ UNCHANGED zArchive
    /\ UNCHANGED <<runScanVars, selectVars, lineVars, adapterVars>>

\* One iteration of `for _, f := range r.File`: extractFile, and the return
\* of extractZip on its error. extractZip runs inside DownloadAndExtract,
\* which runScan calls after the RUNNING announcement.
ExtractFile ==
    /\ zStatus = "extracting"
    /\ pc = "prepare"
    /\ zPos <= Len(zArchive)
    /\ \E io \in IOOutcomes :
          LET r == extractFile(zArchive[zPos], DestDir, zFs, io)
          IN  /\ zFs' = r.fs
              /\ zTouched' = zTouched \cup r.touched
              /\ zErr' = r.err
              /\ IF r.err = NilErr
                 THEN /\ zPos' = zPos + 1
                      /\ zStatus' = zStatus
                 ELSE /\ zPos' = zPos
                      /\ zStatus' = "failed"
    /\ UNCHANGED zArchive
    /\ UNCHANGED <<runScanVars, selectVars, lineVars, adapterVars>>

\* The loop is over: extractZip returns nil.
ExtractZipReturn ==
    /\ zStatus = "extracting"
    /\ pc = "prepare"
    /\ zPos > Len(zArchive)
    /\ zStatus' = "ok"
    /\ UNCHANGED <<zArchive, zPos, zFs, zTouched, zErr>>
    /\ UNCHANGED <<runScanVars, selectVars, lineVars, adapterVars>>

\* DownloadAndExtract returns what extractZip returned, and runScan goes on
\* to select the scanners or to the error branch of the download.
PrepareSourceExtracted ==
    /\ pc = "prepare"
    /\ zStatus \in {"ok", "failed"}
    /\ fetch' = IF zStatus = "ok" THEN "ok" ELSE "failed"
    /\ pc' = IF zStatus = "ok" THEN "init" ELSE "fetchFailed"
    /\ UNCHANGED <<selectVars, zipVars, lineVars, adapterVars>>
    /\ UNCHANGED <<ret, connected, deadline, cancelled, rpcs, scannerList,
                   workerVars, allFindings, scanErrors>>

\* runScan up to the return of the error branch of the download, with the
\* extraction of the archive in place of the outcome of DownloadAndExtract.
NextZip ==
    \/ Connect
    \/ AnnounceRunning
    \/ ExtractFile
    \/ ExtractZipReturn
    \/ PrepareSourceExtracted
    \/ AnnounceFetchFailed

SpecZip == InitZip /\ [][NextZip]_vars

----------------------------------------------------------------------------
(* internal/scanners: the line reader of TruffleHogScanner.Scan *)

\* DetectorName values of a detection record.
DetectorNames == {"AWS", "Github"}

\* A line of stdout: what json.Unmarshal makes of it ("record": a detection
\* with Verified false, "verified": one with Verified true, "malformed": an
\* error, "empty": the empty line), whether it is longer than the token
\* limit of a bufio.Scanner (bufio.MaxScanTokenSize), and the DetectorName
\* of a detection.
OutputLines ==
    {[kind |-> k, long |-> l, detector |-> d] :
        k \in {"record", "verified"}, l \in BOOLEAN, d \in DetectorNames}
        \cup {[kind |-> "malformed", long |-> l, detector |-> ""] : l \in BOOLEAN}
        \cup {[kind |-> "empty", long |-> FALSE, detector |-> ""]}

\* What the subprocess writes when it runs to its end.
Outputs == {<<>>} \cup UNION {[1..n -> OutputLines] : n \in 1..MaxLines}

\* Variant of SecretFinding: a verified secret is reported as CRITICAL.
SecretFindingGraded(line, n) ==
    [ScanType |-> "SECRETS",
     Severity |-> IF line.kind = "verified" THEN "CRITICAL" ELSE "HIGH",
     Title |-> <<"Secret detected: ", line.detector>>,
     Description |-> IF line.kind = "verified"
                     THEN "Potential secret found in source code (VERIFIED - this secret is active!)"
                     ELSE "Potential secret found in source code",
     line |-> n]

\* The finding built from the line at position n.
SecretFinding(line, n) ==
    [ScanType |-> "SECRETS",
     Severity |-> "HIGH",
     Title |-> <<"Secret detected: ", line.detector>>,
     Description |-> IF line.kind = "verified"
                     THEN "Potential secret found in source code (VERIFIED - this secret is active!)"
                     ELSE "Potential secret found in source code",
     line |-> n]

InitLines ==
    /\ InitRunScan
    /\ SelectIdle
    /\ ZipIdle
    /\ AdapterIdle
    /\ tLines \in Outputs
    /\ tPos = 1
    /\ tFindings = <<>>
    /\ tErr = NilErr
    /\ tRet = NilErr
    /\ tStatus = "reading"
    /\ tProc = "running"

\* scanner.Scan() returned true: one iteration of the loop body.
ReadLine ==
    /\ tStatus = "reading"
    /\ tPos <= Len(tLines)
    /\ ~tLines[tPos].long
    /\ tFindings' = IF tLines[tPos].kind \in {"record", "verified"}
                    THEN Append(tFindings, SecretFinding(tLines[tPos], tPos))
                    ELSE tFindings
    /\ tPos' = tPos + 1
    /\ UNCHANGED <<tLines, tErr, tRet, tStatus, tProc>>
    /\ UNCHANGED <<runScanVars, selectVars, zipVars, adapterVars>>

\* scanner.Scan() returned false, at the end of the output or on a line over
\* the token limit (bufio.ErrTooLong): scanner.Err() and cmd.Wait() are
\* logged and Scan returns findings, nil.
ReturnFindings ==
    /\ tStatus = "reading"
    /\ IF tPos <= Len(tLines) THEN tLines[tPos].long ELSE TRUE
    /\ tErr' = IF tPos <= Len(tLines) THEN <<"bufio.Scanner: token too long">> ELSE NilErr
    /\ tRet' = NilErr
    /\ tStatus' = "returned"
    /\ tProc' = IF tProc = "running" THEN "exited" ELSE tProc
    /\ UNCHANGED <<tLines, tPos, tFindings>>
    /\ UNCHANGED <<runScanVars, selectVars, zipVars, adapterVars>>

\* exec.CommandContext: once ctx is done the subprocess is killed. The
\* lines it had not written yet never reach the pipe; those already written
\* can still be read.
KillSubprocess ==
    /\ tStatus = "reading"
    /\ tProc = "running"
    /\ CtxDone
    /\ \E written \in (tPos - 1)..Len(tLines) :
          tLines' = SubSeq(tLines, 1, written)
    /\ tProc' = "killed"
    /\ UNCHANGED <<tPos, tFindings, tErr, tRet, tStatus>>
    /\ UNCHANGED <<runScanVars, selectVars, zipVars, adapterVars>>

NextLines ==
    \/ ReadLine
    \/ ReturnFindings

SpecLines == InitLines /\ [][NextLines]_vars

----------------------------------------------------------------------------
(* cmd/runner: initializeScanners applied to every request and tool set *)

InitSelect ==
    /\ InitRunScan
    /\ ZipIdle
    /\ LinesIdle
    /\ AdapterIdle
    /\ sTypes \in ScanTypeLists
    /\ sInstalled \in SUBSET Scanners
    /\ sList = <<>>
    /\ sStatus = "ready"

\* scannerList := initializeScanners(cfg.ScanTypes)
CallInitializeScanners ==
    /\ sStatus = "ready"
    /\ sList' = initializeScanners(sTypes, sInstalled)
    /\ sStatus' = "done"
    /\ UNCHANGED <<sTypes, sInstalled>>
    /\ UNCHANGED <<runScanVars, zipVars, lineVars, adapterVars>>

NextSelect == CallInitializeScanners

SpecSelect == InitSelect /\ [][NextSelect]_vars

----------------------------------------------------------------------------
(* internal/scanners: Scan and parseResults of semgrep, trivy and scancode *)

\* The adapters that read a results document.
DocumentScanners == {"SemgrepScanner", "TrivyScanner", "ScanCodeScanner"}

\* Values of the severity field of a detection (Severity of a trivy
\* vulnerability, extra.metadata.severity of a semgrep result, category of a
\* scancode license): the strings the three switches know, and others.
SeverityStrings ==
    {"CRITICAL", "HIGH", "MEDIUM", "LOW",
     "ERROR", "WARNING", "INFO",
     "Copyleft", "Strong Copyleft", "Copyleft Limited", "Permissive", "Proprietary Free",
     "", "critical", "error", "Warning", "copyleft", "UNKNOWN", "Public Domain"}

\* TrivyScanner.mapSeverity
TrivyMapSeverity(severity) ==
    CASE severity = "CRITICAL" -> "CRITICAL"
      [] severity = "HIGH"     -> "HIGH"
      [] severity = "MEDIUM"   -> "MEDIUM"
      [] severity = "LOW"      -> "LOW"
      [] OTHER                 -> "MEDIUM"

\* Variant of SemgrepMapSeverity: the comparison ignores case.
SemgrepMapSeverityAnyCase(severity) ==
    CASE severity \in {"ERROR", "error"}               -> "HIGH"
      [] severity \in {"WARNING", "Warning", "warning"} -> "MEDIUM"
      [] severity \in {"INFO", "info"}                 -> "LOW"
      [] OTHER                                         -> "MEDIUM"

\* SemgrepScanner.mapSeverity
SemgrepMapSeverity(severity) ==
    CASE severity = "ERROR"   -> "HIGH"
      [] severity = "WARNING" -> "MEDIUM"
      [] severity = "INFO"    -> "LOW"
      [] OTHER                -> "MEDIUM"

\* ScanCodeScanner.getLicenseSeverity
getLicenseSeverity(category) ==
    CASE category \in {"Copyleft", "Strong Copyleft"} -> "HIGH"
      [] category = "Copyleft Limited"                -> "MEDIUM"
      [] category = "Permissive"                      -> "LOW"
      [] category = "Proprietary Free"                -> "LOW"
      [] OTHER                                        -> "MEDIUM"

\* Variant of FindingScanType: scancode findings carry trivy's category.
FindingScanTypeMislabelled(scnr) ==
    CASE scnr = "SemgrepScanner"  -> "SAST"
      [] scnr = "TrivyScanner"    -> "SCA"
      [] scnr = "ScanCodeScanner" -> "SCA"

\* The ScanType literal parseResults puts in a finding.
FindingScanType(scnr) ==
    CASE scnr = "SemgrepScanner"  -> "SAST"
      [] scnr = "TrivyScanner"    -> "SCA"
      [] scnr = "ScanCodeScanner" -> "LICENSE"

\* The &pb.Finding{...} parseResults builds from detection k.
DocumentFinding(scnr, severity, k) ==
    [ScanType |-> FindingScanType(scnr),
     Severity |-> CASE scnr = "SemgrepScanner"  -> SemgrepMapSeverity(severity)
                    [] scnr = "TrivyScanner"    -> TrivyMapSeverity(severity)
                    [] scnr = "ScanCodeScanner" -> getLicenseSeverity(severity),
     raw |-> severity,
     n |-> k]

\* The results file when parseResults reads it: "missing" (the tool wrote
\* none), "unreadable" (os.ReadFile fails for another reason), "malformed"
\* (json.Unmarshal into the adapter's document type returns an error),
\* "document" (it returns nil).
ResultsFileStates == {"missing", "unreadable", "malformed", "document"}

\* The detections a results file holds (for a malformed file: those a
\* decoder meets before it gives up).
DetectionLists == {<<>>} \cup UNION {[1..n -> SeverityStrings] : n \in 1..MaxFindings}

\* Variant of parseResults: after an unmarshal error the findings decoded so
\* far are returned with the error.
parseResultsKeepsPartial(scnr, file, detections) ==
    IF file \in {"missing", "unreadable"}
    THEN [findings |-> <<>>, err |-> <<"failed to read results">>]
    ELSE [findings |-> [k \in 1..Len(detections) |-> DocumentFinding(scnr, detections[k], k)],
          err |-> IF file = "malformed" THEN <<"failed to unmarshal JSON">> ELSE NilErr]

\* parseResults(resultsFile): findings, nil for a document and nil, err otherwise.
parseResults(scnr, file, detections) ==
    IF file \in {"missing", "unreadable"}
    THEN [findings |-> <<>>, err |-> <<"failed to read results">>]
    ELSE IF file = "malformed"
    THEN [findings |-> <<>>, err |-> <<"failed to unmarshal JSON">>]
    ELSE [findings |-> [k \in 1..Len(detections) |-> DocumentFinding(scnr, detections[k], k)],
          err |-> NilErr]

\* Scan is called on one of the three adapters, installed or not.
InitDocumentScan ==
    /\ aScnr \in DocumentScanners
    /\ aInstalled \in BOOLEAN
    /\ aExit = "none"
    /\ aFile = "none"
    /\ aDetections = <<>>
    /\ aFindings = <<>>
    /\ aErr = NilErr
    /\ aPc = "start"

\* Scan is called on the secrets adapter and the tool was started.
InitSecretsScan ==
    /\ tLines \in Outputs
    /\ tPos = 1
    /\ tFindings = <<>>
    /\ tErr = NilErr
    /\ tRet = NilErr
    /\ tStatus = "reading"
    /\ tProc = "running"

InitScan ==
    /\ InitRunScan
    /\ SelectIdle
    /\ ZipIdle
    /\ \/ InitDocumentScan /\ LinesIdle
       \/ AdapterIdle /\ InitSecretsScan

\* if !IsAvailable() { return nil, fmt.Errorf("... is not installed") }
CheckAvailable ==
    /\ aPc = "start"
    /\ IF aInstalled
       THEN /\ aPc' = "run"
            /\ UNCHANGED aErr
       ELSE /\ aPc' = "returned"
            /\ aErr' = <<Name(aScnr), "is not installed">>
    /\ UNCHANGED <<aScnr, aInstalled, aExit, aFile, aDetections, aFindings>>
    /\ UNCHANGED <<runScanVars, selectVars, zipVars, lineVars>>

\* How the subprocess of a document adapter can end: by itself, with a zero
\* or non-zero exit status, or killed by exec.CommandContext once ctx is
\* done.
ExitStates == {"zero", "nonzero"} \cup (IF CtxDone THEN {"killed"} ELSE {})

\* Variant of RunTool: an error of cmd.CombinedOutput() is returned.
RunToolChecksExit ==
    /\ aPc = "run"
    /\ \E exit \in ExitStates, file \in ResultsFileStates,
          detections \in DetectionLists :
          /\ aExit' = exit
          /\ aFile' = file
          /\ aDetections' = IF file \in {"missing", "unreadable"} THEN <<>> ELSE detections
          /\ IF exit # "zero"
             THEN /\ aPc' = "returned"
                  /\ aErr' = <<"exit status 1">>
             ELSE /\ aPc' = "parse"
                  /\ UNCHANGED aErr
    /\ UNCHANGED <<aScnr, aInstalled, aFindings>>
    /\ UNCHANGED <<runScanVars, selectVars, zipVars, lineVars>>

\* output, err := cmd.CombinedOutput(): the tool ends with some exit status
\* and leaves some results file; err is only logged.
RunTool ==
    /\ aPc = "run"
    /\ \E exit \in ExitStates, file \in ResultsFileStates,
          detections \in DetectionLists :
          /\ aExit' = exit
          /\ aFile' = file
          /\ aDetections' = IF file \in {"missing", "unreadable"} THEN <<>> ELSE detections
    /\ aPc' = "parse"
    /\ UNCHANGED <<aScnr, aInstalled, aFindings, aErr>>
    /\ UNCHANGED <<runScanVars, selectVars, zipVars, lineVars>>

\* findings, err := parseResults(resultsFile)
ParseResults ==
    /\ aPc = "parse"
    /\ LET r == parseResults(aScnr, aFile, aDetections)
       IN  /\ aFindings' = r.findings
           /\ aErr' = r.err
    /\ aPc' = "parsed"
    /\ UNCHANGED <<aScnr, aInstalled, aExit, aFile, aDetections>>
    /\ UNCHANGED <<runScanVars, selectVars, zipVars, lineVars>>

\* if err != nil { return nil, fmt.Errorf("failed to parse ... results: %w", err) }
\* return findings, nil
ReturnScan ==
    /\ aPc = "parsed"
    /\ IF aErr # NilErr
       THEN /\ aFindings' = <<>>
            /\ aErr' = <<"failed to parse results">> \o aErr
       ELSE UNCHANGED <<aFindings, aErr>>
    /\ aPc' = "returned"
    /\ UNCHANGED <<aScnr, aInstalled, aExit, aFile, aDetections>>
    /\ UNCHANGED <<runScanVars, selectVars, zipVars, lineVars>>

NextScan ==
    \/ CheckAvailable
    \/ RunTool
    \/ ParseResults
    \/ ReturnScan
    \/ ReadLine
    \/ ReturnFindings
    \/ KillSubprocess
    \/ DeadlineElapses

SpecScan == InitScan /\ [][NextScan]_vars

----------------------------------------------------------------------------
(* Properties *)

Range(f) == {f[x] : x \in DOMAIN f}

\* UpdateScan calls that carry a status (UpdateScanStatus), in call order.
StatusCalls == SelectSeq(rpcs, LAMBDA r : r.op = "UpdateScan" /\ r.status # "UNSET")

\* CreateFindings RPCs, in call order.
FindingsCalls == SelectSeq(rpcs, LAMBDA r : r.op = "CreateFindings")

\* UpdateScan calls that carry only a count (UpdateFindingsCount), in call order.
CountCalls == SelectSeq(rpcs, LAMBDA r : r.op = "UpdateScan" /\ r.status = "UNSET")

\* runScannersParallel has returned its results to runScan.
AfterBarrier ==
    \/ pc \in {"collect", "upload", "count", "final"}
    \/ pc = "done" /\ fetch = "ok" /\ Len(scannerList) > 0

\* runScan has returned after running the adapters.
AdaptersRan == pc = "done" /\ fetch = "ok" /\ Len(scannerList) > 0

Slots == 1..Len(scannerList)

\* Worker i is at position p.
At(i, p) == i \in DOMAIN wpc /\ wpc[i] = p

Failed(i) == i \in DOMAIN results /\ results[i].Error # NilErr

Succeeded(i) == i \in DOMAIN results /\ results[i] # NilResult /\ results[i].Error = NilErr

\* The findings held by the slots of the adapters that succeeded.
SuccessfulFindings ==
    UNION {Range(results[i].Findings) : i \in {j \in DOMAIN results : Succeeded(j)}}

\* The status of the last status announcement.
TerminalStatus == StatusCalls[Len(StatusCalls)].status

\* C1: after runScannersParallel returns, the result sequence has exactly one
\* entry per adapter of scannerList, and entry i names adapter i: its
\* ScannerName is scannerList[i].Name() and its ScanType scannerList[i].ScanType().
C1_IndexCorrespondence ==
    AfterBarrier =>
        /\ Len(results) = Len(scannerList)
        /\ \A i \in Slots :
              /\ results[i].ScannerName = Name(scannerList[i])
              /\ results[i].ScanType = ScanType(scannerList[i])

\* Two different adapters ran and runScannersParallel returned their results.
C1_Witness ==
    /\ pc = "collect"
    /\ Len(scannerList) = 2
    /\ scannerList[1] # scannerList[2]
    /\ \A i \in Slots : results[i] # NilResult

\* C2: runScannersParallel returns only through its barrier: whenever it has
\* returned, every worker has finished and no slot is nil, also when some
\* adapter failed before the others finished.
C2_SingleBarrier ==
    AfterBarrier =>
        \A i \in Slots : wpc[i] = "exit" /\ results[i] # NilResult

\* One adapter has already failed and finished while a sibling is still
\* scanning, and the caller is still blocked in wg.Wait.
C2_Witness ==
    /\ pc = "wait"
    /\ \E i, j \in Slots :
          /\ At(i, "exit")
          /\ Failed(i)
          /\ At(j, "scan")

C4_StatusSequence ==
    IF connected
    THEN /\ Len(StatusCalls) <= 2
         /\ (pc = "running") = (Len(StatusCalls) = 0)
         /\ (pc = "done") = (Len(StatusCalls) = 2)
         /\ Len(StatusCalls) >= 1 => StatusCalls[1].status = "RUNNING"
         /\ Len(StatusCalls) = 2 => StatusCalls[2].status \in {"COMPLETED", "FAILED"}
    ELSE rpcs = <<>>

\* A run that announced RUNNING and then COMPLETED.
C4_Witness ==
    /\ pc = "done"
    /\ Len(StatusCalls) = 2
    /\ StatusCalls[2].status = "COMPLETED"

\* C5: the terminal status is FAILED if the fetch failed, no adapter was
\* selected or some adapter's result carries an error; it is COMPLETED only
\* if the fetch succeeded, at least one adapter ran and no result has an error.
C5_TerminalDetermination ==
    (pc = "done" /\ connected) =>
        /\ (fetch = "failed" \/ Len(scannerList) = 0 \/ \E i \in Slots : Failed(i))
              => TerminalStatus = "FAILED"
        /\ TerminalStatus = "COMPLETED"
              => /\ fetch = "ok"
                 /\ Len(scannerList) >= 1
                 /\ \A i \in Slots : wpc[i] = "exit" /\ Succeeded(i)

\* A run whose only failure is one adapter's error, every RPC having succeeded.
C5_Witness ==
    /\ pc = "done"
    /\ \E i \in Slots : Failed(i)
    /\ \A k \in 1..Len(rpcs) : rpcs[k].ok

\* C6: when some adapter failed and another succeeded with findings,
\* CreateFindings is still called, with exactly the findings of the adapters
\* that succeeded, and the terminal status is FAILED.
C6_PartialDelivery ==
    (/\ pc = "done"
     /\ \E i \in Slots : Failed(i)
     /\ \E j \in Slots : Succeeded(j) /\ Len(results[j].Findings) > 0) =>
        /\ Len(FindingsCalls) = 1
        /\ Range(FindingsCalls[1].findings) = SuccessfulFindings
        /\ Len(FindingsCalls[1].findings) = Cardinality(SuccessfulFindings)
        /\ TerminalStatus = "FAILED"

\* The first adapter failed, the second succeeded with a finding, and the
\* finding was delivered.
C6_Witness ==
    /\ pc = "done"
    /\ Len(scannerList) = 2
    /\ Failed(1)
    /\ Succeeded(2)
    /\ Len(results[2].Findings) > 0
    /\ Len(FindingsCalls) = 1
    /\ FindingsCalls[1].ok

\* Every selected adapter ran and succeeded.
AllAdaptersSucceeded ==
    /\ fetch = "ok"
    /\ Len(scannerList) >= 1
    /\ \A i \in Slots : Succeeded(i)

\* C7 as stated: when every adapter succeeded, the terminal status is
\* COMPLETED and runScan returns nil, whatever happened to the reporting RPCs.
C7_ReportingFailureIgnored ==
    (pc = "done" /\ AllAdaptersSucceeded) =>
        /\ TerminalStatus = "COMPLETED"
        /\ ret = "nil"

\* C7 amended: when every adapter succeeded, a failed UpdateFindingsCount is
\* only logged, but a failed CreateFindings is added to scanErrors: the
\* terminal status is FAILED and runScan returns an error exactly when the
\* CreateFindings RPC failed, and COMPLETED / nil otherwise.
C7_UploadFailureFails ==
    (pc = "done" /\ AllAdaptersSucceeded) =>
        LET uploadFailed == \E k \in 1..Len(FindingsCalls) : ~FindingsCalls[k].ok
        IN  /\ uploadFailed => TerminalStatus = "FAILED" /\ ret = "error"
            /\ ~uploadFailed => TerminalStatus = "COMPLETED" /\ ret = "nil"

\* Every adapter succeeded, the findings were delivered, the count update
\* failed, and the run still ended COMPLETED with a nil return.
C7_Witness ==
    /\ pc = "done"
    /\ AllAdaptersSucceeded
    /\ Len(FindingsCalls) = 1
    /\ FindingsCalls[1].ok
    /\ Len(CountCalls) = 1
    /\ ~CountCalls[1].ok
    /\ ret = "nil"

\* C8: status announcements are best-effort.  A run that connected never
\* returns before the fetch was attempted, and when the fetch succeeded and
\* adapters were selected every one of them ran, whether or not the RUNNING
\* announcement succeeded; and the value returned is nil when COMPLETED was
\* attempted and an error when FAILED was attempted, whether or not that
\* announcement succeeded.
C8_BestEffortAnnouncements ==
    (pc = "done" /\ connected) =>
        /\ fetch # "none"
        /\ (fetch = "ok" /\ Len(scannerList) > 0) => \A i \in Slots : wpc[i] = "exit"
        /\ Len(StatusCalls) = 2
        /\ StatusCalls[2].status = "COMPLETED" => ret = "nil"
        /\ StatusCalls[2].status = "FAILED" => ret = "error"

\* Both announcements failed, the adapters still ran and the run returned nil.
C8_Witness ==
    /\ pc = "done"
    /\ AllAdaptersSucceeded
    /\ Len(StatusCalls) = 2
    /\ ~StatusCalls[1].ok
    /\ ~StatusCalls[2].ok
    /\ StatusCalls[2].status = "COMPLETED"
    /\ ret = "nil"

\* C9: CreateFindings is issued at most once, only after every worker has
\* finished, and carries all the collected findings; a run that collected
\* findings issues it, a run that collected none issues no CreateFindings and,
\* if no adapter failed, ends COMPLETED with a nil return.
C9_BulkDeliveryOnce ==
    /\ Len(FindingsCalls) <= 1
    /\ Len(FindingsCalls) = 1 =>
          /\ Len(scannerList) > 0
          /\ \A i \in Slots : wpc[i] = "exit"
          /\ FindingsCalls[1].findings = allFindings
          /\ Range(allFindings) = SuccessfulFindings
          /\ allFindings # <<>>
    /\ AdaptersRan =>
          /\ (SuccessfulFindings # {}) = (Len(FindingsCalls) = 1)
          /\ (SuccessfulFindings = {} /\ \A i \in Slots : Succeeded(i))
                => ret = "nil" /\ TerminalStatus = "COMPLETED"

\* One CreateFindings call carries the findings of two adapters.
C9_Witness ==
    /\ Len(FindingsCalls) = 1
    /\ \E f, g \in Range(FindingsCalls[1].findings) : f.id[1] # g.id[1]

\* C10 as stated: in every run that executed the adapters, UpdateFindingsCount
\* is sent exactly once, with the number of collected findings, also when
\* there was nothing to deliver.
C10_CountAlwaysSent ==
    AdaptersRan =>
        /\ Len(CountCalls) = 1
        /\ CountCalls[1].count = Cardinality(SuccessfulFindings)

\* C10 amended: UpdateFindingsCount is sent at most once; in a run that
\* executed the adapters it is sent exactly once when at least one finding
\* was collected, immediately after the CreateFindings call and whether or
\* not that call succeeded, carrying the number of collected findings; it is
\* not sent when no finding was collected.
C10_CountSentWithFindings ==
    /\ Len(CountCalls) <= 1
    /\ AdaptersRan =>
          IF SuccessfulFindings # {}
          THEN /\ Len(CountCalls) = 1
               /\ CountCalls[1].count = Cardinality(SuccessfulFindings)
               /\ \E k \in 1..(Len(rpcs) - 1) :
                     /\ rpcs[k].op = "CreateFindings"
                     /\ rpcs[k + 1] = CountCalls[1]
          ELSE Len(CountCalls) = 0

\* The delivery failed and the count was still sent.
C10_Witness ==
    /\ pc = "done"
    /\ Len(FindingsCalls) = 1
    /\ ~FindingsCalls[1].ok
    /\ Len(CountCalls) = 1

\* C11: when the archive fetch fails, the pipeline short-circuits: no scanner
\* is selected and no worker is ever started, and runScan returns an error
\* after exactly one FAILED announcement, with no CreateFindings and no
\* UpdateFindingsCount call.
C11_FetchFailureShortCircuits ==
    fetch = "failed" =>
        /\ pc \in {"fetchFailed", "done"}
        /\ scannerList = <<>>
        /\ wpc = <<>>
        /\ results = <<>>
        /\ Len(FindingsCalls) = 0
        /\ Len(CountCalls) = 0
        /\ pc = "done" =>
              /\ ret = "error"
              /\ Len(StatusCalls) = 2
              /\ StatusCalls[2].status = "FAILED"
        /\ pc = "fetchFailed" => Len(StatusCalls) = 1

\* The fetch failed and runScan has returned.
C11_Witness ==
    /\ pc = "done"
    /\ fetch = "failed"
    /\ ret = "error"

\* C12: when no requested category maps to an available adapter, the job only
\* announces FAILED with the "No scanners available" message and returns an
\* error: no worker is ever started, and nothing is fetched after (or because
\* of) that determination; the archive fetch has already completed before it.
C12_NoScannersAvailable ==
    /\ [](fetch = "ok" /\ Len(scannerList) = 0 =>
             /\ pc \in {"init", "noScanners", "done"}
             /\ wpc = <<>>
             /\ results = <<>>
             /\ pc = "done" =>
                   /\ ret = "error"
                   /\ TerminalStatus = "FAILED"
                   /\ StatusCalls[Len(StatusCalls)].msg
                          = <<"No scanners available for requested scan types">>
                   /\ Len(FindingsCalls) = 0)
    /\ [][(pc \in {"noScanners", "done"}) => (fetch' = fetch)]_vars

\* No scanner was available and runScan has returned.
C12_Witness ==
    /\ pc = "done"
    /\ fetch = "ok"
    /\ Len(scannerList) = 0

\* C13 as stated: if the deadline elapses after RUNNING was announced, the job
\* ends FAILED: runScan returns an error and the terminal status it announces
\* is FAILED, never COMPLETED.
C13_DeadlineEndsFailed ==
    (/\ pc = "done"
     /\ connected
     /\ deadline
     /\ StatusCalls[1].ok) =>
        /\ ret = "error"
        /\ TerminalStatus = "FAILED"

\* C16 as stated: no two workers are inside Scan at the same time with the
\* same results file.
C16_NoSharedResultsFile ==
    \A i, j \in DOMAIN wpc :
        (i # j /\ wpc[i] = "scan" /\ wpc[j] = "scan") =>
            ResultsFile(scannerList[i]) # ResultsFile(scannerList[j])

\* C17: a slot of the results slice is written only by the worker of the same
\* index, once (the slot was nil, the worker is past Scan and moves on), and
\* that step changes no other slot; runScan reads the slots (the collect loop)
\* only when every worker has ended.
C17_SlotOwnership ==
    [][/\ \A i \in DOMAIN results :
             results'[i] # results[i] =>
                 /\ results[i] = NilResult
                 /\ wpc[i] = "returned"
                 /\ wpc'[i] = "wrote"
                 /\ \A j \in DOMAIN results \ {i} :
                       /\ results'[j] = results[j]
                       /\ wpc'[j] = wpc[j]
       /\ \A i \in DOMAIN wpc :
             (wpc[i] = "returned" /\ wpc'[i] # "returned") => results'[i] # NilResult
       /\ (pc = "collect" /\ pc' # "collect") => \A i \in Slots : At(i, "exit")]_vars

\* Two workers have each written their slot while the caller waits.
C17_Witness ==
    /\ pc = "wait"
    /\ \E i, j \in Slots :
          /\ i # j
          /\ At(i, "wrote")
          /\ At(j, "wrote")
          /\ results[i] # NilResult
          /\ results[j] # NilResult

\* C18: the client is used by the caller only and sequentially: every call on
\* the connection is a step of runScan itself (one that moves runScan on),
\* made while no worker goroutine is running, and no step of a worker makes
\* a call.
C18_ClientCallerOnly ==
    [][rpcs' # rpcs =>
          /\ pc' # pc
          /\ wpc' = wpc
          /\ \A i \in DOMAIN wpc : wpc[i] \in {"none", "exit"}
          /\ pc \in {"start", "running", "fetchFailed", "noScanners", "upload", "count", "final"}]_vars

\* Two workers have ended and the caller has since delivered their findings.
C18_Witness ==
    /\ pc = "count"
    /\ Len(scannerList) = 2
    /\ \A i \in Slots : At(i, "exit")
    /\ Len(FindingsCalls) = 1

\* C19: each worker goes once through spawn, Scan, slot write and end (Scan
\* is invoked once per selected adapter, a failed adapter is not run again);
\* there is one slot per selected adapter and after the barrier slot i holds
\* only what worker i's Scan returned.
C19_OneResultPerAdapter ==
    /\ [][\A i \in DOMAIN wpc :
              (i \in DOMAIN wpc' /\ wpc'[i] # wpc[i]) =>
                  <<wpc[i], wpc'[i]>> \in {<<"none", "scan">>, <<"scan", "returned">>,
                                           <<"returned", "wrote">>, <<"wrote", "exit">>}]_vars
    /\ [](AfterBarrier =>
             /\ Len(results) = Len(scannerList)
             /\ \A i \in Slots :
                   /\ results[i].Findings = wFindings[i]
                   /\ results[i].Error = wErr[i]
                   /\ \A f \in Range(results[i].Findings) : f.id[1] = i)

\* runScannersParallel returned one failed and one successful result.
C19_Witness ==
    /\ pc = "collect"
    /\ Len(scannerList) = 2
    /\ \E i, j \in Slots : Failed(i) /\ Succeeded(j) /\ Len(results[j].Findings) > 0

\* The category string t asks for scanner scnr: it is the scanner's declared
\* category in upper case or in lower case.
LowerCase(category) ==
    CASE category = "SAST"    -> "sast"
      [] category = "SCA"     -> "sca"
      [] category = "SECRETS" -> "secrets"
      [] category = "LICENSE" -> "license"

Requests(t, scnr) == t \in {ScanType(scnr), LowerCase(ScanType(scnr))}

\* Positions of the request that ask for an installed tool.
Contributing == {i \in DOMAIN sTypes : \E scnr \in sInstalled : Requests(sTypes[i], scnr)}

\* The k-th contributing position, in request order.
NthContributing(k) ==
    CHOOSE i \in Contributing : Cardinality({j \in Contributing : j < i}) = k - 1

\* C20: initializeScanners returns only adapters whose tool is available at
\* selection time, in the order of the requested categories: the list has one
\* element for each requested entry that names an installed tool, in request
\* order, and none for an unavailable tool or an unknown category.
C20_OnlyAvailableInOrder ==
    sStatus = "done" =>
        /\ Len(sList) = Cardinality(Contributing)
        /\ \A k \in DOMAIN sList :
              /\ sList[k] \in sInstalled
              /\ Requests(sTypes[NthContributing(k)], sList[k])

\* A request for a tool that is not installed next to one for a tool that is.
C20_Witness ==
    /\ sStatus = "done"
    /\ Len(sList) = 1
    /\ Len(sTypes) = 2
    /\ \E i \in DOMAIN sTypes : \E scnr \in Scanners \ sInstalled : Requests(sTypes[i], scnr)

\* path is destDir or lies below it: its elements start with destDir's.
Inside(path) ==
    LET elems == CleanElems(SplitAt(path, <<>>), TRUE, <<>>)
        root == CleanElems(SplitAt(DestDir, <<>>), TRUE, <<>>)
    IN  /\ Len(elems) >= Len(root)
        /\ SubSeq(elems, 1, Len(root)) = root

\* Entry k of the archive resolves outside destDir.
Escapes(k) == ~Inside(Join(DestDir, zArchive[k].Name))

\* C14: whatever the position of an entry that resolves outside destDir,
\* extractZip does not return nil on an archive that has one, and at no point
\* of the extraction has a file or directory been created or written outside
\* destDir.
C14_ZipSlipRejected ==
    /\ \A p \in zTouched : Inside(p)
    /\ \A n \in zFs \ InitialFs : Inside(n.path)
    /\ (\E k \in DOMAIN zArchive : Escapes(k)) => zStatus # "ok"

\* The second entry escapes; the first one was extracted before it.
C14_Witness ==
    /\ zStatus = "failed"
    /\ zPos = 2
    /\ Len(zArchive) = 2
    /\ Escapes(2)
    /\ ~Escapes(1)
    /\ zTouched # {}

\* Positions of the valid lines: non-empty and parseable.
ValidLines == {i \in DOMAIN tLines : tLines[i].kind \in {"record", "verified"}}

\* The k-th valid line, in output order.
NthValidLine(k) ==
    CHOOSE i \in ValidLines : Cardinality({j \in ValidLines : j < i}) = k - 1

\* C15 as stated: for any sequence of output lines, Scan returns no error and
\* one finding per valid line, in the order of the lines, whatever malformed
\* lines stand between them.
C15_FindingPerValidLine ==
    tStatus = "returned" =>
        /\ tRet = NilErr
        /\ Len(tFindings) = Cardinality(ValidLines)
        /\ \A k \in DOMAIN tFindings :
              k <= Cardinality(ValidLines) => tFindings[k].line = NthValidLine(k)

\* The place of a call in the order RUNNING, CreateFindings,
\* UpdateFindingsCount, terminal status, Close.
Phase(r) ==
    CASE r.op = "UpdateScan" /\ r.status = "RUNNING" -> 1
      [] r.op = "CreateFindings"                      -> 2
      [] r.op = "UpdateScan" /\ r.status = "UNSET"    -> 3
      [] r.op = "UpdateScan" /\ r.status \in {"COMPLETED", "FAILED"} -> 4
      [] OTHER                                        -> 5

\* C26: the calls of a run are made in the order RUNNING, CreateFindings,
\* UpdateFindingsCount, terminal status, each at most once; RUNNING is the
\* first call and is made before the fetch and before any adapter starts;
\* CreateFindings is made only after the fetch and after every worker ended;
\* and a run whose adapters all succeeded with findings and that ends
\* COMPLETED has made one CreateFindings call, with all the findings.
C26_CallOrder ==
    /\ \A i, j \in DOMAIN rpcs : i < j => Phase(rpcs[i]) < Phase(rpcs[j])
    /\ (connected /\ pc \notin {"start", "running"}) =>
           /\ Len(rpcs) >= 1
           /\ Phase(rpcs[1]) = 1
    /\ (fetch # "none" \/ wpc # <<>>) => (Len(rpcs) >= 1 /\ Phase(rpcs[1]) = 1)
    /\ Len(FindingsCalls) > 0 =>
           /\ fetch = "ok"
           /\ \A i \in Slots : At(i, "exit")
    /\ (AdaptersRan /\ AllAdaptersSucceeded /\ SuccessfulFindings # {}
             /\ TerminalStatus = "COMPLETED") =>
           /\ Len(FindingsCalls) = 1
           /\ Range(FindingsCalls[1].findings) = SuccessfulFindings
           /\ FindingsCalls[1].findings = allFindings

\* A run of two adapters delivered findings, the count and COMPLETED.
C26_Witness ==
    /\ pc = "done"
    /\ Len(scannerList) = 2
    /\ Len(FindingsCalls) = 1
    /\ Len(CountCalls) = 1
    /\ TerminalStatus = "COMPLETED"

\* The outcome of runScan agrees with the last status it announced.
OutcomeAgrees ==
    /\ ret = "nil" <=> (Len(StatusCalls) > 0 /\ TerminalStatus = "COMPLETED")
    /\ ret = "error" <=> (Len(StatusCalls) > 0 /\ TerminalStatus = "FAILED")

\* C27 as stated: on every return, runScan returns nil exactly when the last
\* status it announced is COMPLETED and an error exactly when it is FAILED.
C27_OutcomeAgreesAlways == pc = "done" => OutcomeAgrees

\* C27: on every return that follows a successful connect, runScan returns
\* nil exactly when the last status it announced is COMPLETED and an error
\* exactly when it is FAILED.
C27_OutcomeAgreesOnceConnected == (pc = "done" /\ connected) => OutcomeAgrees

\* The adapters ran, one failed, and runScan returned the error.
C27_Witness ==
    /\ AdaptersRan
    /\ connected
    /\ ret = "error"
    /\ TerminalStatus = "FAILED"
    /\ \E i \in Slots : Failed(i)

\* The slots that hold an error.
FailedSlots == {i \in DOMAIN results : Failed(i)}

\* The k-th failed slot, in slot order.
NthFailedSlot(k) ==
    CHOOSE i \in FailedSlots : Cardinality({j \in FailedSlots : j < i}) = k - 1

\* The entries of the error message of the last status call that name an
\* adapter (the other possible entry is the upload failure).
AdapterEntries ==
    SelectSeq(Tail(StatusCalls[Len(StatusCalls)].msg),
              LAMBDA e : e[1] # "Failed to upload findings")

\* C28: the message of the FAILED announcement made after the barrier has one
\* entry per failed slot, in slot order, made of that adapter's name and
\* error, and no entry for an adapter that succeeded.
C28_ErrorsAggregated ==
    (AdaptersRan /\ TerminalStatus = "FAILED") =>
        /\ Len(AdapterEntries) = Cardinality(FailedSlots)
        /\ \A k \in DOMAIN AdapterEntries :
              AdapterEntries[k] = <<Name(scannerList[NthFailedSlot(k)]),
                                    results[NthFailedSlot(k)].Error>>

\* Two different adapters failed and FAILED was announced.
C28_Witness ==
    /\ AdaptersRan
    /\ TerminalStatus = "FAILED"
    /\ Cardinality(FailedSlots) = 2
    /\ scannerList[1] # scannerList[2]

\* C30: calls are made only on an open connection; the connection is closed
\* when runScan returns after a successful connect and not before, once, and
\* the Close is the last call.
C30_ClosedOnceAtEnd ==
    /\ ~connected => rpcs = <<>>
    /\ pc # "done" => \A k \in DOMAIN rpcs : rpcs[k].op # "Close"
    /\ (pc = "done" /\ connected) =>
           /\ rpcs[Len(rpcs)].op = "Close"
           /\ \A k \in 1..(Len(rpcs) - 1) : rpcs[k].op # "Close"

\* runScan returned on the no-adapter path and the last call is the Close.
C30_Witness ==
    /\ pc = "done"
    /\ connected
    /\ fetch = "ok"
    /\ scannerList = <<>>
    /\ rpcs[Len(rpcs)].op = "Close"

\* C29: once the deadline has elapsed runScan eventually returns (and so has
\* runScannersParallel before it), even when a tool never exits by itself.
C29_TerminatesAfterDeadline == deadline ~> (pc = "done")

\* The deadline has elapsed while a tool is running and the caller waits.
C29_Witness ==
    /\ deadline
    /\ pc = "wait"
    /\ \E i \in Slots : At(i, "scan")

\* C25: every finding of the secrets adapter has severity HIGH, whatever the
\* detector and the Verified flag of its record; two findings have the same
\* description exactly when their records agree on Verified.
C25_SecretsAlwaysHigh ==
    /\ \A k \in DOMAIN tFindings : tFindings[k].Severity = "HIGH"
    /\ \A j, k \in DOMAIN tFindings :
          (tLines[tFindings[j].line].kind = tLines[tFindings[k].line].kind)
              <=> (tFindings[j].Description = tFindings[k].Description)

\* Scan returned a verified and an unverified secret of different detectors.
C25_Witness ==
    /\ tStatus = "returned"
    /\ \E j, k \in DOMAIN tFindings :
          /\ tLines[tFindings[j].line].kind = "verified"
          /\ tLines[tFindings[k].line].kind = "record"
          /\ tLines[tFindings[j].line].detector # tLines[tFindings[k].line].detector

\* C21: a document adapter's Scan succeeds exactly when the tool is available
\* and the results file is readable and parses, whether the subprocess
\* exited zero or non-zero.
C21_ExitDoesNotDecide ==
    aPc = "returned" =>
        (aErr = NilErr <=> (aInstalled /\ aFile = "document"))

\* The tool exited non-zero and Scan returned its findings without error.
C21_Witness ==
    /\ aPc = "returned"
    /\ aExit = "nonzero"
    /\ aErr = NilErr
    /\ Len(aFindings) >= 1

\* C22: parseResults and Scan return an error together with no findings: with
\* a results file that is missing, unreadable or malformed Scan returns an
\* error, and whenever there is an error the finding list is empty.
C22_AllOrNothing ==
    /\ (aPc = "returned" /\ aInstalled /\ aFile \in {"missing", "unreadable", "malformed"})
           => aErr # NilErr
    /\ aErr # NilErr => aFindings = <<>>

\* A malformed file that held a detection made Scan fail.
C22_Witness ==
    /\ aPc = "returned"
    /\ aFile = "malformed"
    /\ Len(aDetections) >= 1
    /\ aErr # NilErr

\* The values of pb.Severity other than the unset one.
Severities == {"LOW", "MEDIUM", "HIGH", "CRITICAL"}

\* C23: every finding an adapter builds carries the category its adapter
\* declares (ScanType()) and a severity among LOW, MEDIUM, HIGH, CRITICAL.
C23_CategoryAndSeverity ==
    /\ \A k \in DOMAIN aFindings :
          /\ aFindings[k].ScanType = ScanType(aScnr)
          /\ aFindings[k].Severity \in Severities
    /\ \A k \in DOMAIN tFindings :
          /\ tFindings[k].ScanType = ScanType("TruffleHogScanner")
          /\ tFindings[k].Severity \in Severities

\* scancode reported a license without a category.
C23_Witness ==
    /\ aPc = "returned"
    /\ aScnr = "ScanCodeScanner"
    /\ Len(aFindings) >= 1
    /\ aFindings[1].raw = ""

\* The documented tables: category, input string, severity.
DocumentedSeverity ==
    {<<"SAST", "ERROR", "HIGH">>, <<"SAST", "WARNING", "MEDIUM">>, <<"SAST", "INFO", "LOW">>,
     <<"SCA", "CRITICAL", "CRITICAL">>, <<"SCA", "HIGH", "HIGH">>,
     <<"SCA", "MEDIUM", "MEDIUM">>, <<"SCA", "LOW", "LOW">>,
     <<"LICENSE", "Copyleft", "HIGH">>, <<"LICENSE", "Strong Copyleft", "HIGH">>,
     <<"LICENSE", "Copyleft Limited", "MEDIUM">>, <<"LICENSE", "Permissive", "LOW">>,
     <<"LICENSE", "Proprietary Free", "LOW">>}

\* C24: the severity of a finding is the one its adapter's documented table
\* gives for the detection's severity string, and MEDIUM for every string
\* the table does not list (the empty string and wrong-case spellings too).
C24_SeverityTables ==
    \A k \in DOMAIN aFindings :
        LET f == aFindings[k]
            rows == {r \in DocumentedSeverity : r[1] = ScanType(aScnr) /\ r[2] = f.raw}
        IN  IF rows = {}
            THEN f.Severity = "MEDIUM"
            ELSE \A r \in rows : f.Severity = r[3]

\* semgrep reported a severity in the wrong case.
C24_Witness ==
    /\ aPc = "returned"
    /\ aScnr = "SemgrepScanner"
    /\ Len(aFindings) >= 1
    /\ aFindings[1].raw = "error"
    /\ aFindings[1].Severity = "MEDIUM"

----------------------------------------------------------------------------
(* Delivery of the findings *)

\* The findings of the slots from i on whose result has no error, slot by
\* slot.
RECURSIVE FindingsOfSuccessful(_)
FindingsOfSuccessful(i) ==
    IF i > Len(results)
    THEN <<>>
    ELSE (IF results[i].Error = NilErr THEN results[i].Findings ELSE <<>>)
             \o FindingsOfSuccessful(i + 1)

\* C31: the finding sequence passed to CreateFindings is exactly the
\* concatenation, in result-slot order, of the findings of the adapters whose
\* result has no error: nothing of a failed adapter is delivered, nothing is
\* duplicated, nothing is dropped (when that concatenation is not empty the
\* call is made).
C31_DeliveredInSlotOrder ==
    /\ \A k \in 1..Len(FindingsCalls) :
           FindingsCalls[k].findings = FindingsOfSuccessful(1)
    /\ (pc \in {"count", "final"} \/ AdaptersRan) =>
           (FindingsOfSuccessful(1) # <<>> => Len(FindingsCalls) = 1)

\* Two adapters succeeded with a finding each and both findings were
\* delivered in one call.
C31_Witness ==
    /\ pc = "done"
    /\ Len(scannerList) = 2
    /\ Succeeded(1) /\ Len(results[1].Findings) > 0
    /\ Succeeded(2) /\ Len(results[2].Findings) > 0
    /\ Len(FindingsCalls) = 1
    /\ Len(FindingsCalls[1].findings) = 2

----------------------------------------------------------------------------
(* Termination of the subprocess *)

\* C32 as stated: a Scan whose subprocess was killed because the context was
\* done returns an error (which the worker stores in its result slot), for
\* the secrets adapter, which reads a stream, and for the document adapters.
C32_TerminatedReportsError ==
    /\ (tStatus = "returned" /\ tProc = "killed") => tRet # NilErr
    /\ (aPc = "returned" /\ aExit = "killed") => aErr # NilErr

----------------------------------------------------------------------------
(* Selection without repetition *)

\* C33 as stated: whatever the requested list, repeated entries and
\* mixed-case spellings of one category included, the list returned by
\* initializeScanners holds each adapter at most once.
C33_EachAdapterOnce ==
    sStatus = "done" =>
        \A i, j \in DOMAIN sList : sList[i] = sList[j] => i = j

----------------------------------------------------------------------------
(* Entries the zip-slip check turns down *)

\* C34 as stated: the zip-slip check rejects an entry only if its normalized
\* destination lies outside destDir; an entry that resolves to destDir
\* itself or to a path below it ("./", "d/../x", "d/") is not rejected, so
\* an archive of such entries is not refused by the check.
C34_NoFalseRejection ==
    (zStatus = "failed" /\ zErr = <<"invalid file path">>) => Escapes(zPos)

----------------------------------------------------------------------------
(* Extraction that fails part of the way *)

\* What entry k of the archive leaves in the file system when it is
\* extracted.
Extracted(k) ==
    [path |-> Join(DestDir, zArchive[k].Name),
     kind |-> IF zArchive[k].IsDir THEN "dir" ELSE "file"]

\* C35: extractZip takes the entries in archive order and stops at the first
\* one that fails, without rollback: at every point nothing is in destDir but
\* what the entries up to the current one put there; after a failed
\* extractZip every entry before the failing one is present, nothing of an
\* entry after it has been written, and runScan goes to the error branch of
\* the download and returns an error, selecting and starting no adapter.
C35_StopsAtFirstFailure ==
    /\ \A n \in zFs \ InitialFs :
           \E k \in 1..zPos :
               /\ k <= Len(zArchive)
               /\ n.path \in PathAndParents(Join(DestDir, zArchive[k].Name))
    /\ zStatus = "failed" =>
           /\ zPos <= Len(zArchive)
           /\ \A k \in 1..(zPos - 1) : Extracted(k) \in zFs
           /\ pc \in {"prepare", "fetchFailed", "done"}
           /\ scannerList = <<>>
           /\ wpc = <<>>
           /\ pc = "done" => ret = "error" /\ fetch = "failed"

\* The second of three entries failed: the first is in destDir, the third
\* is not, and runScan has returned the error.
C35_Witness ==
    /\ zStatus = "failed"
    /\ pc = "done"
    /\ ret = "error"
    /\ Len(zArchive) = 3
    /\ zPos = 2
    /\ Extracted(1) \in zFs
    /\ Extracted(2) \notin zFs
    /\ Extracted(3) \notin zFs
    /\ Len(StatusCalls) = 2

====
